---- MODULE Spec2Model ----
(***************************************************************************)
(* Scientific Thinking Model: the /api/process-pdfs route (POST and its    *)
(* processFile generator) and the page (file selection, generateAnalysis   *)
(* and its read loop).                                                     *)
(*                                                                         *)
(* Text is a sequence of characters, each a string of length one; the two  *)
(* pictographs the route writes are one character each.  What travels from *)
(* the route to the page is bytes: the UTF-8 encoding of the text, in      *)
(* which a pictograph takes four bytes, so that a network read can end     *)
(* anywhere in a word, in a marker or in a pictograph.                     *)
(***************************************************************************)
EXTENDS Naturals, Sequences, FiniteSets

\* ------------------------------------------------------------------ bounds

\* Largest number of files in one request.
MaxFiles == 2
\* Largest number of chunks the splitter returns for one document.
MaxChunks == 6
\* Largest number of chunks per document in the runs that include the page.
PageMaxChunks == 1
\* Largest number of chunks per document in the runs checked for termination.
LiveMaxChunks == 5
\* Largest number of written fragments on their way to the page at one time.
NetWindow == 2
\* Largest number of files the user has selected at one time, and largest
\* number of files picked in one go, in the runs in which the selection changes.
MaxSelected == 2

\* -------------------------------------------------------- program constants

\* Math.min(chunks.length, 5)
MaxSummarizedChunks == 5

\* ------------------------------------------------------------------- text

Space == " "
Newline == "\n"
\* The whitespace that occurs in the texts of this program.
Whitespace == {Space, Newline}

\* 'Summary for'
MarkerSummary == <<"S", "u", "m", "m", "a", "r", "y", " ", "f", "o", "r">>
\* 'Unified Analysis:'
MarkerUnified == <<"U", "n", "i", "f", "i", "e", "d", " ", "A", "n", "a", "l", "y", "s", "i", "s",
      ":">>

\* The pictographs the route puts before 'Analyzing' (U+1F9E0) and
\* 'Synthesizing' (U+1F9EA).
Brain == "(brain)"
TestTube == "(test tube)"
Pictographs == {Brain, TestTube}

\* U+FFFD, what a decoder puts in the place of bytes that are no character.
Replacement == "(replacement)"

\* String(n): the decimal digits of n.
Digits == <<"0", "1", "2", "3", "4", "5", "6", "7", "8", "9">>
RECURSIVE Decimal(_)
Decimal(n) == IF n < 10 THEN <<Digits[n + 1]>> ELSE Decimal(n \div 10) \o <<Digits[(n % 10) + 1]>>

Min(a, b) == IF a <= b THEN a ELSE b

\* s.startsWith(m)
StartsWith(s, m) == Len(s) >= Len(m) /\ \A j \in 1..Len(m) : s[j] = m[j]

\* The places where m occurs in s.
Occurrences(s, m) ==
  {i \in 1..Len(s) : i + Len(m) - 1 <= Len(s) /\ \A j \in 1..Len(m) : s[i + j - 1] = m[j]}

\* s.includes(m)
Includes(s, m) == Occurrences(s, m) # {}

\* s.indexOf(m, from), Len(s) + 1 when there is none.
IndexFrom(s, m, from) ==
  LET later == {i \in Occurrences(s, m) : i >= from}
  IN IF later = {} THEN Len(s) + 1 ELSE CHOOSE i \in later : \A j \in later : i <= j

\* s.split(m)[1]: what lies between the first occurrence of m and the next one
\* (or the end of s).  Only used where s includes m.
SplitSecond(s, m) ==
  LET first == IndexFrom(s, m, 1)
      start == first + Len(m)
      next == IndexFrom(s, m, start)
  IN SubSeq(s, start, next - 1)

\* What follows the first occurrence of m in s.
RestAfter(s, m) == SubSeq(s, IndexFrom(s, m, 1) + Len(m), Len(s))

\* s.trim()
Trim(s) ==
  LET solid == {i \in 1..Len(s) : s[i] \notin Whitespace}
  IN IF solid = {} THEN << >>
     ELSE SubSeq(s, CHOOSE i \in solid : \A j \in solid : i <= j,
                    CHOOSE i \in solid : \A j \in solid : i >= j)

\* parts.join(sep)
RECURSIVE Join(_, _)
Join(parts, sep) ==
  IF parts = << >> THEN << >>
  ELSE IF Len(parts) = 1 THEN parts[1]
  ELSE parts[1] \o sep \o Join(Tail(parts), sep)

IsPrefix(s, t) == Len(s) <= Len(t) /\ \A j \in 1..Len(s) : t[j] = s[j]

\* --------------------------------------------------------------- encoding

\* The UTF-8 bytes of one character.  A byte below 0x80 goes by the name of its
\* character, the others by their two hexadecimal digits.
Utf8(c) ==
  IF c = Brain THEN <<"F0", "9F", "A7", "A0">>
  ELSE IF c = TestTube THEN <<"F0", "9F", "A7", "AA">>
  ELSE <<c>>

\* The bytes of 0x80 and above that the encoding of this program's texts holds.
HighBytes == {"F0", "9F", "A7", "A0", "AA"}

\* encoder.encode(text)
RECURSIVE Encode(_)
Encode(text) == IF text = << >> THEN << >> ELSE Utf8(Head(text)) \o Encode(Tail(text))

\* The character the four bytes from position k of bytes encode, when they do.
PictographAt(bytes, k) ==
  {c \in Pictographs : k + 3 <= Len(bytes) /\ SubSeq(bytes, k, k + 3) = Utf8(c)}

\* The byte at position k continues a sequence that a 0xF0 byte began: it is
\* the second, third or fourth byte of a sequence that is valid so far.
ContinuesSequence(bytes, k) ==
  \/ k >= 2 /\ bytes[k - 1] = "F0" /\ bytes[k] = "9F"
  \/ k >= 3 /\ bytes[k - 2] = "F0" /\ bytes[k - 1] = "9F" /\ bytes[k] = "A7"
  \/ k >= 4 /\ PictographAt(bytes, k - 3) # {}

\* What decoding puts out when it comes to the byte at position k: the
\* character itself for a byte below 0x80; for 0xF0 the pictograph when its four
\* bytes are there, and one U+FFFD for a sequence that ends early; nothing for
\* the bytes that continue a sequence; one U+FFFD for any other byte.
NoCharacter == ""
DecodedAt(bytes, k) ==
  IF bytes[k] \notin HighBytes THEN bytes[k]
  ELSE IF bytes[k] = "F0"
       THEN IF PictographAt(bytes, k) # {} THEN CHOOSE c \in PictographAt(bytes, k) : TRUE
            ELSE Replacement
  ELSE IF ContinuesSequence(bytes, k) THEN NoCharacter
  ELSE Replacement

\* new TextDecoder().decode(value): every call decodes its bytes on their own,
\* a sequence that the bytes begin or end in the middle of is not completed by
\* the next call.
Decode(bytes) ==
  LET IsCharacter(c) == c # NoCharacter
  IN SelectSeq([k \in 1..Len(bytes) |-> DecodedAt(bytes, k)], IsCharacter)

\* -------------------------------------------------------------- fragments

\* `Processing ${file.name}...\n`
ProcessingFragment(name) == <<"P", "r", "o", "c", "e", "s", "s", "i", "n", "g",
      " ">> \o name \o <<".", ".", ".", "\n">>

\* `(brain) Analyzing section ${i + 1} of ${Math.min(chunks.length, 5)} for ${file.name}\n`
AnalyzingFragment(i, n, name) ==
  <<Brain>> \o <<" ", "A", "n", "a", "l", "y", "z", "i", "n", "g", " ", "s", "e", "c", "t", "i",
        "o", "n", " ">> \o Decimal(i + 1) \o <<" ", "o", "f", " ">> \o Decimal(n)
  \o <<" ", "f", "o", "r", " ">> \o name \o <<"\n">>

\* `Summary for ${file.name}:\n${fullSummary}\n\n`
SummaryFragment(name, summary) ==
  MarkerSummary \o <<" ">> \o name \o <<":", "\n">> \o summary \o <<"\n", "\n">>

\* '(test tube) Synthesizing findings...\n'
SynthesizingFragment == <<TestTube>> \o <<" ", "S", "y", "n", "t", "h", "e", "s", "i", "z", "i",
      "n", "g", " ", "f", "i", "n", "d", "i", "n", "g", "s", ".", ".", ".", "\n">>

\* `Unified Analysis:\n${unifiedAnalysis.text}\n`
UnifiedFragment(text) == MarkerUnified \o <<"\n">> \o text \o <<"\n">>

\* `Error: ${(e as Error).message}\n`
ErrorFragment(message) == <<"E", "r", "r", "o", "r", ":", " ">> \o message \o <<"\n">>

\* `Files selected: ${newFiles.map(f => f.name).join(', ')}`
FilesSelectedText(newFiles) == <<"F", "i", "l", "e", "s", " ", "s", "e", "l", "e", "c", "t", "e",
      "d", ":", " ">> \o Join(newFiles, <<",", " ">>)

\* `File removed: ${fileToRemove.name}`
FileRemovedText(name) == <<"F", "i", "l", "e", " ", "r", "e", "m", "o", "v", "e", "d", ":",
      " ">> \o name

\* 'No files uploaded'
NoFilesBody == <<"N", "o", " ", "f", "i", "l", "e", "s", " ", "u", "p", "l", "o", "a", "d", "e",
      "d">>

\* --------------------------------------------------------------- inputs

PlainNames == {<<"a", ".", "p", "d", "f">>, <<"b", ".", "p", "d", "f">>}

\* A form entry under 'files' that is a string and not a File.
TextEntry == <<"(text entry)">>

\* What a client can put under 'files'.
RouteEntries == PlainNames \cup {TextEntry}

\* What the LLM generates in one request: some texts, used in turn (see
\* ChunkSummaryText and UnifiedText).  Here an empty text, a text with
\* whitespace around it, and a plain one.
PlainReplies == {<<<<>>, <<" ", "w", "\n">>, <<"v">>>>}

\* Names and generated texts that contain a marker themselves.
PageNames == PlainNames \cup {MarkerSummary \o <<".", "p", "d", "f">>}
PageReplies ==
  {<<<<"w">>, <<"v">>>>,
   <<<<"x", " ">> \o MarkerSummary \o <<" ", "y">>, <<"w">>>>,
   <<<<"w">>, <<"x", " ">> \o MarkerSummary \o <<" ", "y">>>>,
   <<MarkerUnified \o <<" ", "z">>, <<"w">>>>}

\* The selections for the runs with a network between the route and the page:
\* nothing, or one file.
ReadsSelections == {<< >>, <<<<"a", ".", "p", "d", "f">>>>}

\* The chunk counts the splitter returns in the runs with a network between the
\* route and the page: every pictograph on the way multiplies the ways the
\* reads can part the bytes.
ReadsChunkCounts == {0, 1}

\* Generated texts for the runs with a network between the route and the page.
ReadsReplies == {<<<<"w">>, <<"v">>>>, <<<<"w">>, MarkerUnified \o <<"z">>>>}

\* The messages of the faults the environment can raise.
\* file.arrayBuffer() on a form entry that is a string, not a File
BytesError == <<"f", "i", "l", "e", ".", "a", "r", "r", "a", "y", "B", "u", "f", "f", "e", "r",
      " ", "i", "s", " ", "n", "o", "t", " ", "a", " ", "f", "u", "n", "c", "t", "i", "o", "n">>
StageError == <<"E", "N", "O", "S", "P", "C">>
LoadError == <<"b", "a", "d", " ", "p", "d", "f">>
SplitError == <<"s", "p", "l", "i", "t", " ", "f", "a", "i", "l", "e", "d">>
LlmError == <<"l", "l", "m", " ", "f", "a", "i", "l", "e", "d">>
RmError == <<"E", "B", "U", "S", "Y">>

RECURSIVE SeqsUpTo(_, _)
SeqsUpTo(S, n) ==
  IF n = 0 THEN {<< >>}
  ELSE LET shorter == SeqsUpTo(S, n - 1)
       IN shorter \cup {Append(s, x) : s \in {t \in shorter : Len(t) = n - 1}, x \in S}


\* ---------------------------------------------------------------- state

VARIABLES
  selected,       \* the page's files state: the files selected, by name
  files,          \* the request's files, by name, in submission order
  reply,          \* the texts the LLM generates in this request
  response,       \* what POST returned: status and body
  pc,             \* where the worker of POST stands
  fileIdx,        \* the file the worker is on (1-based)
  chunkCount,     \* chunks.length of the current file
  i,              \* the loop variable of processFile
  fullSummary,    \* processFile's fullSummary
  unwinding,      \* why processFile's finally runs: no (it returns), throw, return
  exception,      \* the value being thrown (the catch block's e), NoException for none
  summaries,      \* POST's summaries list
  tempDirs,       \* the files whose temporary directory exists
  streamState,    \* the TransformStream: none, open, closed, cancelled
  storedError,    \* the reason the consumer cancelled with, which the writes reject with
  closeCalls,     \* how often writer.close() ran
  write,          \* the worker's awaited writer.write: idle, pending, resolved, rejected
  wire,           \* the bytes of the fragment written and not yet taken by the consumer
  stream,         \* every fragment handed to writer.write, in order
  rejected,       \* the fragments whose write rejected, in order
  calls,          \* every call to an external capability, in order
  net,            \* the bytes of fragments (or their rests) on their way to the page's reader
  cpc,            \* where the page's generateAnalysis stands
  isLoading,      \* the page's isLoading state
  error,          \* the page's error state, NoError for null
  scientificProcess, \* the page's progress log
  results,        \* the page's results state, NoResults for null
  accumulatedText,   \* generateAnalysis's accumulatedText
  currentSummary, \* generateAnalysis's currentSummary
  pageSummaries,  \* generateAnalysis's summaries array, which results.summaries refers to
  aligned,        \* every read so far delivered exactly one written fragment
  markerCut       \* some read ended inside a 'Unified Analysis:'

vars == <<selected, files, reply, response, pc, fileIdx, chunkCount, i, fullSummary, unwinding,
          exception, summaries, tempDirs, streamState, storedError, closeCalls, write, wire,
          stream, rejected, calls, net, cpc, isLoading, error, scientificProcess, results,
          accumulatedText, currentSummary, pageSummaries, aligned, markerCut>>

request == <<files, reply>>
generator == <<fileIdx, chunkCount, i, fullSummary, unwinding>>
streamEnd == <<streamState, storedError>>
transport == <<streamEnd, closeCalls, write, wire, stream, rejected>>
worker == <<pc, generator, exception, summaries, tempDirs, streamEnd, closeCalls, stream,
           rejected, calls>>
reader == <<accumulatedText, currentSummary, pageSummaries>>
page == <<selected, net, cpc, isLoading, error, scientificProcess, results, reader, aligned,
          markerCut>>

\* null, for the page's error and results states.
NoError == <<"null">>
NoResults == [published |-> FALSE, unifiedAnalysis |-> << >>]

NoResponse == [status |-> 0, body |-> << >>, streaming |-> FALSE]

\* The values that are thrown: an Error with its message, undefined (null
\* behaves alike), or a string.
NoException == [kind |-> "none", message |-> << >>]
ErrorOf(message) == [kind |-> "error", message |-> message]
Undefined == [kind |-> "undefined", message |-> << >>]
StringOf(text) == [kind |-> "string", message |-> text]

\* What the consumer can cancel the body with: nothing, an Error, a string.
CancelReasons == {Undefined, ErrorOf(<<"a", "b", "o", "r", "t", "e", "d">>), StringOf(<<"g", "o",
      "n", "e">>)}

\* e.message cannot be read: e is undefined or null.
HasNoProperties(e) == e.kind = "undefined"

\* `${(e as Error).message}`: the message of an Error; a string has no message
\* property, and undefined is printed as 'undefined'.
MessageText(e) == IF e.kind = "error" THEN e.message ELSE <<"u", "n", "d", "e", "f", "i", "n", "e",
      "d">>

\* What reading a property of undefined throws.
PropertyError == ErrorOf(<<"C", "a", "n", "n", "o", "t", " ", "r", "e", "a", "d", " ", "p", "r",
      "o", "p", "e", "r", "t", "i", "e", "s", " ", "o", "f", " ", "u", "n", "d", "e", "f", "i",
      "n", "e", "d", " ", "(", "r", "e", "a", "d", "i", "n", "g", " ", "'", "m", "e", "s", "s",
      "a", "g", "e", "'", ")">>)

\* One entry of the log of external calls.
Call(op, file, chunk, ok, text) ==
  [op |-> op, file |-> file, chunk |-> chunk, ok |-> ok, text |-> text]

\* The state of a worker that has not been started, and of its stream.
WorkerAtStart ==
  /\ response = NoResponse
  /\ pc = "idle"
  /\ fileIdx = 0
  /\ chunkCount = 0
  /\ i = 0
  /\ fullSummary = << >>
  /\ unwinding = "no"
  /\ exception = NoException
  /\ summaries = << >>
  /\ tempDirs = {}
  /\ streamState = "none"
  /\ storedError = NoException
  /\ closeCalls = 0
  /\ write = "idle"
  /\ wire = << >>
  /\ stream = << >>
  /\ rejected = << >>
  /\ calls = << >>

\* The state of the page at mount, but for the selection and the progress log.
PageAtMount ==
  /\ net = << >>
  /\ cpc = "idle"
  /\ isLoading = FALSE
  /\ error = NoError
  /\ results = NoResults
  /\ accumulatedText = << >>
  /\ currentSummary = << >>
  /\ pageSummaries = << >>
  /\ aligned = TRUE
  /\ markerCut = FALSE

\* A request arrives at the route from some client.
InitRoute(names, replies) ==
  /\ files \in SeqsUpTo(names, MaxFiles)
  /\ reply \in replies
  /\ selected = << >>
  /\ scientificProcess = << >>
  /\ WorkerAtStart
  /\ PageAtMount

\* The page after its user has picked some files in one go, no request made yet.
InitOver(selections, replies) ==
  /\ selected \in selections
  /\ scientificProcess = IF selected = << >> THEN << >> ELSE FilesSelectedText(selected)
  /\ reply \in replies
  /\ files = << >>
  /\ WorkerAtStart
  /\ PageAtMount

\* ------------------------------------------------- the route: POST, processFile

\* Mutant: the test is off by one.
NoFilesOffByOne(fs) == Len(fs) <= 1

\* files.length === 0
NoFiles(fs) == Len(fs) = 0

\* Mutant: the cap is missing.
SummarizedCountUncapped(n) == n

\* Math.min(chunks.length, 5)
SummarizedCount(n) == Min(n, MaxSummarizedChunks)

\* chunkSummary.text: what summarizationChain.call returns for chunks[c].
ChunkSummaryText(c) == reply[(c % Len(reply)) + 1]

\* unifiedAnalysis.text: what unifiedAnalysisChain.call returns.
UnifiedText == reply[Len(reply)]

\* Mutant: every chunk the generator yields is kept as a summary.
IsSummaryChunkAlways(chunk) == TRUE

\* typeof chunk === 'string' && chunk.startsWith('Summary for')
IsSummaryChunk(chunk) == StartsWith(chunk, MarkerSummary)

\* summaries.join('\n')
SynthesisInput(list) == Join(list, <<Newline>>)

\* The for loop's test at the top of an iteration: call the LLM again, or finish.
LoopNext(idx, n) == IF idx < SummarizedCount(n) THEN "summarize" ELSE "yieldSummary"

\* Mutant: the loop over the files ends after its first iteration.
AfterFileStopsEarly(k) == "announce"

\* Where the worker goes when processFile has returned for file k.
AfterFile(k) == IF k < Len(files) THEN "bytes" ELSE "announce"

\* writer.write(encoder.encode(chunk)) is called: the bytes of the chunk are
\* queued and the promise stays pending until the consumer takes them; it is
\* rejected at once when the consumer has cancelled.
Write(chunk) ==
  /\ stream' = Append(stream, chunk)
  /\ IF streamState = "cancelled"
     THEN /\ write' = "rejected"
          /\ rejected' = Append(rejected, chunk)
          /\ wire' = wire
     ELSE /\ write' = "pending"
          /\ wire' = Append(wire, Encode(chunk))
          /\ rejected' = rejected

\* POST up to the return of the Response.
Post ==
  /\ pc = "idle"
  /\ IF NoFiles(files)
     THEN /\ response' = [status |-> 400, body |-> NoFilesBody, streaming |-> FALSE]
          /\ pc' = "rejected"
          /\ UNCHANGED <<fileIdx, streamEnd>>
     ELSE /\ response' = [status |-> 200, body |-> << >>, streaming |-> TRUE]
          /\ streamState' = "open"
          /\ UNCHANGED storedError
          /\ fileIdx' = 1
          /\ pc' = "bytes"
  /\ UNCHANGED <<request, chunkCount, i, fullSummary, unwinding, exception, summaries,
                 tempDirs, closeCalls, write, wire, stream, rejected, calls>>
  /\ UNCHANGED page

\* processFile is entered: await file.arrayBuffer(), Buffer.from.  An entry that
\* is a string has no arrayBuffer method, and the call throws a TypeError.
ReadBytes ==
  /\ pc = "bytes"
  /\ IF files[fileIdx] = TextEntry
     THEN /\ exception' = ErrorOf(BytesError)
          /\ pc' = "catch"
     ELSE /\ pc' = "mkdtemp"
          /\ UNCHANGED exception
  /\ chunkCount' = 0
  /\ i' = 0
  /\ fullSummary' = << >>
  /\ unwinding' = "no"
  /\ UNCHANGED <<request, response, fileIdx, summaries, tempDirs, transport, calls>>
  /\ UNCHANGED page

\* processFile: await fs.mkdtemp(...), before the try block.
StageDir ==
  /\ pc = "mkdtemp"
  /\ \/ /\ tempDirs' = tempDirs \cup {fileIdx}
        /\ calls' = Append(calls, Call("mkdtemp", fileIdx, 0, TRUE, << >>))
        /\ pc' = "writeFile"
        /\ UNCHANGED exception
     \/ /\ calls' = Append(calls, Call("mkdtemp", fileIdx, 0, FALSE, << >>))
        /\ exception' = ErrorOf(StageError)
        /\ pc' = "catch"
        /\ UNCHANGED tempDirs
  /\ UNCHANGED <<request, response, generator, summaries, transport>>
  /\ UNCHANGED page

\* processFile: await fs.writeFile(tempFilePath, buffer), before the try block.
StageWrite ==
  /\ pc = "writeFile"
  /\ \/ /\ calls' = Append(calls, Call("writeFile", fileIdx, 0, TRUE, << >>))
        /\ pc' = "yieldProcessing"
        /\ UNCHANGED exception
     \/ /\ calls' = Append(calls, Call("writeFile", fileIdx, 0, FALSE, << >>))
        /\ exception' = ErrorOf(StageError)
        /\ pc' = "catch"
  /\ UNCHANGED <<request, response, generator, summaries, tempDirs, transport>>
  /\ UNCHANGED page

\* yield `Processing ${file.name}...\n`, handed to writer.write by the worker.
YieldProcessing ==
  /\ pc = "yieldProcessing"
  /\ Write(ProcessingFragment(files[fileIdx]))
  /\ pc' = "processingWritten"
  /\ UNCHANGED <<request, response, generator, exception, summaries, tempDirs, streamEnd,
                 closeCalls, calls>>
  /\ UNCHANGED page

\* processFile: await loader.load(), the first statement of the try block.
Load ==
  /\ pc = "load"
  /\ \/ /\ calls' = Append(calls, Call("load", fileIdx, 0, TRUE, << >>))
        /\ pc' = "split"
        /\ UNCHANGED <<unwinding, exception>>
     \/ /\ calls' = Append(calls, Call("load", fileIdx, 0, FALSE, << >>))
        /\ exception' = ErrorOf(LoadError)
        /\ unwinding' = "throw"
        /\ pc' = "cleanup"
  /\ UNCHANGED <<request, response, fileIdx, chunkCount, i, fullSummary, summaries, tempDirs,
                 transport>>
  /\ UNCHANGED page

\* processFile: await textSplitter.splitDocuments(docs); then the loop is entered.
Split(counts) ==
  /\ pc = "split"
  /\ \/ \E n \in counts :
          /\ calls' = Append(calls, Call("split", fileIdx, n, TRUE, << >>))
          /\ chunkCount' = n
          /\ i' = 0
          /\ pc' = LoopNext(0, n)
          /\ UNCHANGED <<unwinding, exception>>
     \/ /\ calls' = Append(calls, Call("split", fileIdx, 0, FALSE, << >>))
        /\ exception' = ErrorOf(SplitError)
        /\ unwinding' = "throw"
        /\ pc' = "cleanup"
        /\ UNCHANGED <<chunkCount, i>>
  /\ UNCHANGED <<request, response, fileIdx, fullSummary, summaries, tempDirs, transport>>
  /\ UNCHANGED page

\* Mutant: the newest chunk summary is put in front of the earlier ones.
SummarizeChunkPrepends ==
  /\ pc = "summarize"
  /\ \/ /\ fullSummary' = ChunkSummaryText(i) \o <<Space>> \o fullSummary
        /\ calls' = Append(calls, Call("summarize", fileIdx, i, TRUE, ChunkSummaryText(i)))
        /\ pc' = "yieldAnalyzing"
        /\ UNCHANGED <<unwinding, exception>>
     \/ /\ calls' = Append(calls, Call("summarize", fileIdx, i, FALSE, << >>))
        /\ unwinding' = "throw"
        /\ exception' = ErrorOf(LlmError)
        /\ pc' = "cleanup"
        /\ UNCHANGED fullSummary
  /\ UNCHANGED <<request, response, fileIdx, chunkCount, i, summaries, tempDirs, transport>>
  /\ UNCHANGED page

\* await summarizationChain.call on chunks[i]; fullSummary += chunkSummary.text + ' '.
SummarizeChunk ==
  /\ pc = "summarize"
  /\ \/ /\ fullSummary' = fullSummary \o ChunkSummaryText(i) \o <<Space>>
        /\ calls' = Append(calls, Call("summarize", fileIdx, i, TRUE, ChunkSummaryText(i)))
        /\ pc' = "yieldAnalyzing"
        /\ UNCHANGED <<unwinding, exception>>
     \/ /\ calls' = Append(calls, Call("summarize", fileIdx, i, FALSE, << >>))
        /\ unwinding' = "throw"
        /\ exception' = ErrorOf(LlmError)
        /\ pc' = "cleanup"
        /\ UNCHANGED fullSummary
  /\ UNCHANGED <<request, response, fileIdx, chunkCount, i, summaries, tempDirs, transport>>
  /\ UNCHANGED page

\* Mutant: the progress line numbers the sections from zero.
YieldAnalyzingFromZero ==
  /\ pc = "yieldAnalyzing"
  /\ Write(<<Brain>> \o <<" ", "A", "n", "a", "l", "y", "z", "i", "n", "g", " ", "s", "e", "c",
        "t", "i", "o", "n", " ">> \o Decimal(i) \o <<" ", "o", "f", " ">>
           \o Decimal(SummarizedCount(chunkCount)) \o <<" ", "f", "o", "r",
                 " ">> \o files[fileIdx] \o <<"\n">>)
  /\ pc' = "analyzingWritten"
  /\ UNCHANGED <<request, response, generator, exception, summaries, tempDirs, streamEnd,
                 closeCalls, calls>>
  /\ UNCHANGED page

\* yield `(brain) Analyzing section ...`, handed to writer.write by the worker.
YieldAnalyzing ==
  /\ pc = "yieldAnalyzing"
  /\ Write(AnalyzingFragment(i, SummarizedCount(chunkCount), files[fileIdx]))
  /\ pc' = "analyzingWritten"
  /\ UNCHANGED <<request, response, generator, exception, summaries, tempDirs, streamEnd,
                 closeCalls, calls>>
  /\ UNCHANGED page

\* fullSummary = fullSummary.trim(); yield `Summary for ...`, handed to
\* writer.write by the worker.
YieldSummary ==
  /\ pc = "yieldSummary"
  /\ fullSummary' = Trim(fullSummary)
  /\ Write(SummaryFragment(files[fileIdx], Trim(fullSummary)))
  /\ pc' = "summaryWritten"
  /\ UNCHANGED <<request, response, fileIdx, chunkCount, i, unwinding, exception, summaries,
                 tempDirs, streamEnd, closeCalls, calls>>
  /\ UNCHANGED page

\* The positions at which the worker awaits a write.
AwaitingWrite ==
  {"processingWritten", "analyzingWritten", "summaryWritten", "announced", "unifiedWritten",
   "errorWritten"}

\* The awaited writer.write settles and the worker goes on.
\* Resolved: within the for-await loop the chunk is kept when it is a summary
\* and the generator is resumed (i++ after an Analyzing line, the return and
\* with it the finally block after the Summary).  Rejected: the reason the
\* consumer cancelled with is thrown; it leaves
\* the for-await loop, which closes the generator (its finally block runs when
\* it is suspended inside the try block, not at the Processing line, which is
\* yielded before the try block) and goes to the catch block; a rejection of
\* the catch block's own write leaves the catch block for the finally block.
WriteSettles ==
  /\ pc \in AwaitingWrite
  /\ write \in {"resolved", "rejected"}
  /\ write' = "idle"
  /\ IF write = "resolved"
     THEN /\ summaries' = IF pc \in {"processingWritten", "analyzingWritten", "summaryWritten"}
                             /\ IsSummaryChunk(stream[Len(stream)])
                          THEN Append(summaries, stream[Len(stream)])
                          ELSE summaries
          /\ i' = IF pc = "analyzingWritten" THEN i + 1 ELSE i
          /\ pc' = CASE pc = "processingWritten" -> "load"
                     [] pc = "analyzingWritten" -> LoopNext(i + 1, chunkCount)
                     [] pc = "summaryWritten" -> "cleanup"
                     [] pc = "announced" -> "synthesize"
                     [] pc = "unifiedWritten" -> "finally"
                     [] pc = "errorWritten" -> "finally"
          /\ UNCHANGED <<unwinding, exception>>
     ELSE /\ unwinding' = IF pc \in {"analyzingWritten", "summaryWritten"} THEN "return"
                          ELSE unwinding
          /\ exception' = storedError
          /\ pc' = CASE pc \in {"analyzingWritten", "summaryWritten"} -> "cleanup"
                     [] pc = "errorWritten" -> "finally"
                     [] OTHER -> "catch"
          /\ UNCHANGED <<summaries, i>>
  /\ UNCHANGED <<request, response, fileIdx, chunkCount, fullSummary, tempDirs, streamEnd,
                 closeCalls, wire, stream, rejected, calls>>
  /\ UNCHANGED page

\* Mutant: the fault of a file is swallowed and the next file is processed.
CleanupSwallows ==
  /\ pc = "cleanup"
  /\ tempDirs' = tempDirs \ {fileIdx}
  /\ calls' = Append(calls, Call("rm", fileIdx, 0, TRUE, << >>))
  /\ pc' = IF fileIdx < Len(files) THEN "bytes" ELSE "announce"
  /\ fileIdx' = IF fileIdx < Len(files) THEN fileIdx + 1 ELSE fileIdx
  /\ UNCHANGED <<request, response, chunkCount, i, fullSummary, unwinding, exception,
                 summaries, transport>>
  /\ UNCHANGED page

\* Mutant: the finally block leaves the directory in place.
CleanupLeaves ==
  /\ pc = "cleanup"
  /\ calls' = Append(calls, Call("rm", fileIdx, 0, TRUE, << >>))
  /\ IF unwinding # "no"
     THEN pc' = "catch" /\ UNCHANGED fileIdx
     ELSE pc' = AfterFile(fileIdx) /\ fileIdx' = IF fileIdx < Len(files) THEN fileIdx + 1 ELSE fileIdx
  /\ UNCHANGED <<request, response, chunkCount, i, fullSummary, unwinding, exception,
                 summaries, tempDirs, transport>>
  /\ UNCHANGED page

\* finally: await fs.rm(tempDir, { recursive: true, force: true }); then the
\* return or the throw.  When fs.rm rejects, the directory stays and its
\* exception takes the place of the one being thrown; while the generator is
\* being closed by the for-await loop (unwinding = "return") the loop keeps the
\* exception that made it close the generator.
Cleanup ==
  /\ pc = "cleanup"
  /\ \/ /\ tempDirs' = tempDirs \ {fileIdx}
        /\ calls' = Append(calls, Call("rm", fileIdx, 0, TRUE, << >>))
        /\ IF unwinding # "no"
           THEN pc' = "catch" /\ UNCHANGED fileIdx
           ELSE /\ pc' = AfterFile(fileIdx)
                /\ fileIdx' = IF fileIdx < Len(files) THEN fileIdx + 1 ELSE fileIdx
        /\ UNCHANGED exception
     \/ /\ calls' = Append(calls, Call("rm", fileIdx, 0, FALSE, << >>))
        /\ exception' = IF unwinding = "return" THEN exception ELSE ErrorOf(RmError)
        /\ pc' = "catch"
        /\ UNCHANGED <<tempDirs, fileIdx>>
  /\ UNCHANGED <<request, response, chunkCount, i, fullSummary, unwinding, summaries, transport>>
  /\ UNCHANGED page

\* await writer.write('(test tube) Synthesizing findings...\n') is called.
Announce ==
  /\ pc = "announce"
  /\ Write(SynthesizingFragment)
  /\ pc' = "announced"
  /\ UNCHANGED <<request, response, generator, exception, summaries, tempDirs, streamEnd,
                 closeCalls, calls>>
  /\ UNCHANGED page

\* Mutant: a failed synthesis call is not thrown, its empty text is written.
SynthesizeSwallows ==
  /\ pc = "synthesize"
  /\ \E ok \in BOOLEAN :
       calls' = Append(calls, Call("synthesize", 0, 0, ok, Join(summaries, <<Newline>>)))
  /\ pc' = "writeUnified"
  /\ UNCHANGED <<request, response, generator, exception, summaries, tempDirs, transport>>
  /\ UNCHANGED page

\* await unifiedAnalysisChain.call({ summaries: summaries.join('\n') })
Synthesize ==
  /\ pc = "synthesize"
  /\ \/ /\ calls' = Append(calls, Call("synthesize", 0, 0, TRUE, SynthesisInput(summaries)))
        /\ pc' = "writeUnified"
        /\ UNCHANGED exception
     \/ /\ calls' = Append(calls, Call("synthesize", 0, 0, FALSE, SynthesisInput(summaries)))
        /\ exception' = ErrorOf(LlmError)
        /\ pc' = "catch"
  /\ UNCHANGED <<request, response, generator, summaries, tempDirs, transport>>
  /\ UNCHANGED page

\* await writer.write(`Unified Analysis:\n${unifiedAnalysis.text}\n`) is called.
WriteUnified ==
  /\ pc = "writeUnified"
  /\ Write(UnifiedFragment(UnifiedText))
  /\ pc' = "unifiedWritten"
  /\ UNCHANGED <<request, response, generator, exception, summaries, tempDirs, streamEnd,
                 closeCalls, calls>>
  /\ UNCHANGED page

\* Mutant: the catch block closes the writer too.
CatchClosing ==
  /\ pc = "catch"
  /\ Write(ErrorFragment(MessageText(exception)))
  /\ streamState' = IF streamState = "cancelled" THEN streamState ELSE "closed"
  /\ closeCalls' = closeCalls + 1
  /\ pc' = "errorWritten"
  /\ UNCHANGED <<request, response, generator, exception, summaries, tempDirs, storedError,
                 calls>>
  /\ UNCHANGED page

\* Mutant: the catch block writes nothing.
CatchSilent ==
  /\ pc = "catch"
  /\ pc' = "finally"
  /\ UNCHANGED <<request, response, generator, exception, summaries, tempDirs, transport,
                 calls>>
  /\ UNCHANGED page

\* catch (e): `Error: ${(e as Error).message}\n` is evaluated, then
\* await writer.write of it is called.  When e is undefined or null (a write
\* rejected with the reason of a cancel that gave none), reading its message
\* throws a TypeError in the catch block: nothing is written and the finally
\* block is next.
Catch ==
  /\ pc = "catch"
  /\ IF HasNoProperties(exception)
     THEN /\ exception' = PropertyError
          /\ pc' = "finally"
          /\ UNCHANGED <<write, wire, stream, rejected>>
     ELSE /\ Write(ErrorFragment(MessageText(exception)))
          /\ pc' = "errorWritten"
          /\ UNCHANGED exception
  /\ UNCHANGED <<request, response, generator, summaries, tempDirs, streamEnd, closeCalls,
                 calls>>
  /\ UNCHANGED page

\* Mutant: the writer is closed at the end of the try block, not in a finally.
FinallyOnlyOnSuccess ==
  /\ pc = "finally"
  /\ streamState' = IF exception = NoException THEN "closed" ELSE streamState
  /\ closeCalls' = IF exception = NoException THEN closeCalls + 1 ELSE closeCalls
  /\ pc' = "done"
  /\ UNCHANGED <<request, response, generator, exception, summaries, tempDirs, storedError,
                 write, wire, stream, rejected, calls>>
  /\ UNCHANGED page

\* finally: await writer.close().  Once the consumer has cancelled, close()
\* rejects with the reason of the cancel and nothing handles the rejection.
Finally ==
  /\ pc = "finally"
  /\ streamState' = IF streamState = "cancelled" THEN streamState ELSE "closed"
  /\ closeCalls' = closeCalls + 1
  /\ pc' = "done"
  /\ UNCHANGED <<request, response, generator, exception, summaries, tempDirs, storedError,
                 write, wire, stream, rejected, calls>>
  /\ UNCHANGED page

\* The consumer of the Response body takes the fragment; the write resolves.
Drain ==
  /\ wire # << >>
  /\ wire' = Tail(wire)
  /\ write' = "resolved"
  /\ UNCHANGED <<request, response, pc, generator, exception, summaries, tempDirs,
                 streamEnd, closeCalls, stream, rejected, calls>>
  /\ UNCHANGED page

\* The consumer of the Response body cancels it with some reason (the client
\* went away): the bytes not yet taken are dropped, the write that waits for
\* them rejects with the reason, and so does every later write.
Cancel(reason) ==
  /\ streamState = "open"
  /\ streamState' = "cancelled"
  /\ storedError' = reason
  /\ wire' = << >>
  /\ IF write = "pending"
     THEN /\ write' = "rejected"
          /\ rejected' = Append(rejected, stream[Len(stream)])
     ELSE UNCHANGED <<write, rejected>>
  /\ UNCHANGED <<request, response, pc, generator, exception, summaries, tempDirs,
                 closeCalls, stream, calls>>
  /\ UNCHANGED page

Worker(counts) ==
  \/ ReadBytes
  \/ StageDir
  \/ StageWrite
  \/ YieldProcessing
  \/ Load
  \/ Split(counts)
  \/ SummarizeChunk
  \/ YieldAnalyzing
  \/ YieldSummary
  \/ WriteSettles
  \/ Cleanup
  \/ Announce
  \/ Synthesize
  \/ WriteUnified
  \/ Catch
  \/ Finally

\* The route with a consumer that reads the body to its end.
Init == InitRoute(RouteEntries, PlainReplies)

Next == Post \/ Worker(0..MaxChunks) \/ Drain

Spec == Init /\ [][Next]_vars

\* The route with a consumer that may cancel the body at any moment.
InitCancel == InitRoute(PlainNames, PlainReplies)

NextCancel == Next \/ \E reason \in CancelReasons : Cancel(reason)

SpecCancel == InitCancel /\ [][NextCancel]_vars

InitLive == InitRoute({<<"a", ".", "p", "d", "f">>, TextEntry}, {<<<<"w">>, <<"v">>>>})

NextLive == Post \/ Worker(0..LiveMaxChunks) \/ Drain

\* The route with a consumer that keeps reading and capabilities that always
\* return or fail: no step that can be taken is put off forever.
SpecLive ==
  /\ InitLive
  /\ [][NextLive]_vars
  /\ WF_vars(Post)
  /\ WF_vars(Worker(0..LiveMaxChunks))
  /\ WF_vars(Drain)

\* ------------------------------------- the page: selection, generateAnalysis

\* `Initiating analysis of ${files.length} files...`
InitiatingText(n) ==
  <<"I", "n", "i", "t", "i", "a", "t", "i", "n", "g", " ", "a", "n", "a", "l", "y", "s", "i", "s",
        " ", "o", "f", " ">> \o Decimal(n) \o <<" ", "f", "i", "l", "e", "s", ".", ".", ".">>

\* `\nAnalysis completed successfully.`
CompletedText == <<"\n", "A", "n", "a", "l", "y", "s", "i", "s", " ", "c", "o", "m", "p", "l", "e",
      "t", "e", "d", " ", "s", "u", "c", "c", "e", "s", "s", "f", "u", "l", "l", "y", ".">>

\* The reason phrase that goes with a status on an HTTP/1.1 connection.
ReasonPhrase(status) ==
  IF status = 400 THEN <<"B", "a", "d", " ", "R", "e", "q", "u", "e", "s", "t">> ELSE <<"R", "e",
        "q", "u", "e", "s", "t", " ", "E", "n", "t", "i", "t", "y", " ", "T", "o", "o", " ", "L",
        "a", "r", "g", "e">>

\* response.statusText as the page can see it: the reason phrase, or the empty
\* string on a connection that carries none (HTTP/2).
StatusTexts(status) == {<< >>, ReasonPhrase(status)}

\* `Server responded with ${response.status}: ${response.statusText}`
StatusMessage(status, statusText) ==
  <<"S", "e", "r", "v", "e", "r", " ", "r", "e", "s", "p", "o", "n", "d", "e", "d", " ", "w", "i",
        "t", "h", " ">> \o Decimal(status) \o <<":", " ">> \o statusText

\* `An error occurred: ${error.message}`
ErrorAlert(message) == <<"A", "n", " ", "e", "r", "r", "o", "r", " ", "o", "c", "c", "u", "r", "r",
      "e", "d", ":", " ">> \o message

\* `\nError occurred: ${error.message}`
ErrorLine(message) == <<"\n", "E", "r", "r", "o", "r", " ", "o", "c", "c", "u", "r", "r", "e", "d",
      ":", " ">> \o message

\* response.ok
Ok(status) == status >= 200 /\ status <= 299

\* Mutant: a summary in progress is dropped instead of being pushed.
FinalizeDrops(list, current) == list

\* if (currentSummary) summaries.push(currentSummary.trim())
Finalize(list, current) == IF current # << >> THEN Append(list, Trim(current)) ELSE list

\* The read loop's first if/else: the 'Summary for' marker in the chunk just read.
SummariesAfterSummaryMarker(list, current, chunk) ==
  IF Includes(chunk, MarkerSummary) THEN Finalize(list, current) ELSE list

\* Mutant: the new summary keeps everything after the chunk's first marker.
CurrentKeepsRest(current, chunk) ==
  IF Includes(chunk, MarkerSummary) THEN RestAfter(chunk, MarkerSummary)
  ELSE IF current # << >> THEN current \o chunk
  ELSE current

CurrentAfterSummaryMarker(current, chunk) ==
  IF Includes(chunk, MarkerSummary) THEN SplitSecond(chunk, MarkerSummary)
  ELSE IF current # << >> THEN current \o chunk
  ELSE current

\* The read loop's second if: the 'Unified Analysis:' marker in the chunk just read.
SummariesAfterUnifiedMarker(list, current, chunk) ==
  IF Includes(chunk, MarkerUnified) THEN Finalize(list, current) ELSE list

\* accumulatedText.split('Unified Analysis:')[1].trim()
UnifiedAnalysisOf(text) == Trim(SplitSecond(text, MarkerUnified))

\* Mutant: the 'Unified Analysis:' marker is looked for in the accumulated text.
ConsumeMatchingAccumulated(chunk) ==
  LET list1 == SummariesAfterSummaryMarker(pageSummaries, currentSummary, chunk)
      current1 == CurrentAfterSummaryMarker(currentSummary, chunk)
      seen == Includes(accumulatedText \o chunk, MarkerUnified)
  IN /\ accumulatedText' = accumulatedText \o chunk
     /\ scientificProcess' = scientificProcess \o chunk
     /\ currentSummary' = current1
     /\ pageSummaries' = IF seen THEN Finalize(list1, current1) ELSE list1
     /\ results' = IF seen
                   THEN [published |-> TRUE,
                         unifiedAnalysis |-> UnifiedAnalysisOf(accumulatedText \o chunk)]
                   ELSE results

\* One turn of the read loop on the decoded chunk.  setResults is handed the
\* summaries array itself, so results.summaries is pageSummaries from then on.
Consume(chunk) ==
  LET list1 == SummariesAfterSummaryMarker(pageSummaries, currentSummary, chunk)
      current1 == CurrentAfterSummaryMarker(currentSummary, chunk)
  IN /\ accumulatedText' = accumulatedText \o chunk
     /\ scientificProcess' = scientificProcess \o chunk
     /\ currentSummary' = current1
     /\ pageSummaries' = SummariesAfterUnifiedMarker(list1, current1, chunk)
     /\ results' = IF Includes(chunk, MarkerUnified)
                   THEN [published |-> TRUE,
                         unifiedAnalysis |-> UnifiedAnalysisOf(accumulatedText \o chunk)]
                   ELSE results

\* handleFileChange: the files picked are added to the selection and the
\* progress log is replaced.  Nothing disables the file input while a request
\* is in progress.
HandleFileChange ==
  /\ \E newFiles \in SeqsUpTo(PlainNames, MaxSelected) :
       /\ Len(selected) + Len(newFiles) <= MaxSelected
       /\ selected' = selected \o newFiles
       /\ scientificProcess' = FilesSelectedText(newFiles)
  /\ UNCHANGED <<request, response, worker, write, wire, net, cpc, isLoading, error, results,
                 reader, aligned, markerCut>>

\* removeFile: the file object is filtered out of the selection and the
\* progress log is replaced.  Nothing disables the remove buttons while a
\* request is in progress.
RemoveFile ==
  /\ \E k \in 1..Len(selected) :
       /\ selected' = SubSeq(selected, 1, k - 1) \o SubSeq(selected, k + 1, Len(selected))
       /\ scientificProcess' = FileRemovedText(selected[k])
  /\ UNCHANGED <<request, response, worker, write, wire, net, cpc, isLoading, error, results,
                 reader, aligned, markerCut>>

\* A request that is about to be made gets a worker and a stream of its own.
NewWorker ==
  /\ response' = NoResponse
  /\ pc' = "idle"
  /\ fileIdx' = 0
  /\ chunkCount' = 0
  /\ i' = 0
  /\ fullSummary' = << >>
  /\ unwinding' = "no"
  /\ exception' = NoException
  /\ summaries' = << >>
  /\ tempDirs' = {}
  /\ streamState' = "none"
  /\ storedError' = NoException
  /\ closeCalls' = 0
  /\ write' = "idle"
  /\ wire' = << >>
  /\ stream' = << >>
  /\ rejected' = << >>
  /\ calls' = << >>

\* generateAnalysis, up to the fetch; its button is disabled without files and
\* while loading, and is enabled again when a run has ended.  The form data is
\* built from the selection; the request it makes is served by a new worker.
Click ==
  /\ cpc \in {"idle", "done"}
  /\ ~(Len(selected) = 0 \/ isLoading)
  /\ isLoading' = TRUE
  /\ error' = NoError
  /\ results' = NoResults
  /\ scientificProcess' = InitiatingText(Len(selected))
  /\ files' = selected
  /\ cpc' = "fetching"
  /\ NewWorker
  /\ net' = << >>
  /\ aligned' = TRUE
  /\ markerCut' = FALSE
  /\ UNCHANGED <<selected, reply, reader>>

\* The page's request reaches the route.
PagePost == cpc = "fetching" /\ Post

\* The host answers in place of the route: the upload is over its size limit.
PlatformRejects ==
  /\ cpc = "fetching"
  /\ pc = "idle"
  /\ response' = [status |-> 413, body |-> ReasonPhrase(413), streaming |-> FALSE]
  /\ pc' = "rejected"
  /\ UNCHANGED <<request, generator, exception, summaries, tempDirs, transport, calls, page>>

\* await fetch resolves: the response.ok test, then the reader and the loop's locals.
ResponseArrives ==
  /\ cpc = "fetching"
  /\ response # NoResponse
  /\ IF Ok(response.status)
     THEN /\ cpc' = "reading"
          /\ accumulatedText' = << >>
          /\ currentSummary' = << >>
          /\ pageSummaries' = << >>
          /\ UNCHANGED <<isLoading, error, scientificProcess>>
     ELSE /\ \E statusText \in StatusTexts(response.status) :
               /\ error' = ErrorAlert(StatusMessage(response.status, statusText))
               /\ scientificProcess' =
                    scientificProcess \o ErrorLine(StatusMessage(response.status, statusText))
          /\ isLoading' = FALSE
          /\ cpc' = "done"
          /\ UNCHANGED reader
  /\ UNCHANGED <<selected, request, response, worker, write, wire, net, results, aligned,
                 markerCut>>

\* reader.read() delivers exactly the bytes of the next written fragment, and
\* decoder.decode(value) is its text; the write resolves.
ReadFragment ==
  /\ cpc = "reading"
  /\ wire # << >>
  /\ Consume(Decode(Head(wire)))
  /\ wire' = Tail(wire)
  /\ write' = "resolved"
  /\ UNCHANGED <<selected, request, response, worker, net, cpc, isLoading, error, aligned,
                 markerCut>>

\* The host takes the bytes of the written fragment off the body and sends
\* them; the write resolves.
Transmit ==
  /\ wire # << >>
  /\ Len(net) < NetWindow
  /\ net' = Append(net, Head(wire))
  /\ wire' = Tail(wire)
  /\ write' = "resolved"
  /\ UNCHANGED <<selected, request, response, worker, cpc, isLoading, error, scientificProcess,
                 results, reader, aligned, markerCut>>

\* A read that ends after the n-th byte ends inside an occurrence of m, which
\* occurs at these places.
CutsMarker(places, n, m) == \E o \in places : o <= n /\ n < o + Len(m) - 1

\* What is left of the fragments in transit once their first n bytes were read.
RECURSIVE DropBytes(_, _)
DropBytes(fragments, n) ==
  IF n = 0 THEN fragments
  ELSE IF n >= Len(Head(fragments)) THEN DropBytes(Tail(fragments), n - Len(Head(fragments)))
  ELSE <<SubSeq(Head(fragments), n + 1, Len(Head(fragments)))>> \o Tail(fragments)

\* reader.read() delivers what has arrived, or a first part of it: any number of
\* bytes, across the fragments' ends and through words, markers and
\* pictographs; decoder.decode(value) is its text.
ReadSome ==
  /\ cpc = "reading"
  /\ net # << >>
  /\ LET arrived == Join(net, << >>)
         places == Occurrences(arrived, Encode(MarkerUnified))
     IN \E n \in 1..Len(arrived) :
          /\ Consume(Decode(SubSeq(arrived, 1, n)))
          /\ net' = DropBytes(net, n)
          /\ markerCut' = (markerCut \/ CutsMarker(places, n, Encode(MarkerUnified)))
          /\ aligned' = (aligned /\ n = Len(Head(net)))
  /\ UNCHANGED <<selected, request, response, worker, write, wire, cpc, isLoading, error>>

\* reader.read() reports done: the loop ends, the success line, the finally block.
ReadDone ==
  /\ cpc = "reading"
  /\ wire = << >>
  /\ net = << >>
  /\ streamState = "closed"
  /\ scientificProcess' = scientificProcess \o CompletedText
  /\ isLoading' = FALSE
  /\ cpc' = "done"
  /\ UNCHANGED <<selected, request, response, worker, write, wire, net, error, results, reader,
                 aligned, markerCut>>

\* The page with files selected in one go, and the route; every read delivers
\* exactly one written fragment.
InitPage == InitOver(SeqsUpTo(PageNames, MaxFiles), PageReplies)

NextPage ==
  \/ Click
  \/ PagePost
  \/ PlatformRejects
  \/ ResponseArrives
  \/ ReadFragment
  \/ ReadDone
  \/ Worker(0..PageMaxChunks)

SpecPage == InitPage /\ [][NextPage]_vars

\* The page, the route and a network between them: reads end anywhere.
InitReads == InitOver(ReadsSelections, ReadsReplies)

NextReads ==
  \/ Click
  \/ PagePost
  \/ PlatformRejects
  \/ ResponseArrives
  \/ Transmit
  \/ ReadSome
  \/ ReadDone
  \/ Worker(ReadsChunkCounts)

SpecReads == InitReads /\ [][NextReads]_vars

\* The page from its mount, with the selection changing at any moment, and the route.
InitSelect == InitOver({<< >>}, {<<<<"w">>, <<"v">>>>})

NextSelect == NextPage \/ HandleFileChange \/ RemoveFile

SpecSelect == InitSelect /\ [][NextSelect]_vars

\* ------------------------------------------------ reading the histories

ProcessingHead == <<"P", "r", "o", "c", "e", "s", "s", "i", "n", "g", " ">>
AnalyzingHead == <<Brain>> \o <<" ", "A", "n", "a", "l", "y", "z", "i", "n", "g", " ", "s", "e",
      "c", "t", "i", "o", "n", " ">>
ErrorHead == <<"E", "r", "r", "o", "r", ":", " ">>

IsProcessing(f) == StartsWith(f, ProcessingHead)
IsAnalyzing(f) == StartsWith(f, AnalyzingHead)
IsSummary(f) == StartsWith(f, MarkerSummary)
IsUnified(f) == StartsWith(f, MarkerUnified)
IsError(f) == StartsWith(f, ErrorHead)

\* Where the fragments of one kind stand in the stream, and the k-th such place.
ProcessingAt == {p \in 1..Len(stream) : IsProcessing(stream[p])}
SummaryAt == {p \in 1..Len(stream) : IsSummary(stream[p])}
UnifiedAt == {p \in 1..Len(stream) : IsUnified(stream[p])}
ErrorAt == {p \in 1..Len(stream) : IsError(stream[p])}
Kth(S, k) == CHOOSE p \in S : Cardinality({q \in S : q <= p}) = k

\* The calls that failed.
FailedCalls == {k \in 1..Len(calls) : ~calls[k].ok}

\* Some step of the worker has thrown: a capability failed, a form entry was no
\* File, or a write was rejected.
SomeStepFailed == exception # NoException

\* The message a failed call of that capability throws.
MessageOf(op) ==
  CASE op \in {"mkdtemp", "writeFile"} -> StageError
    [] op = "load" -> LoadError
    [] op = "split" -> SplitError
    [] op = "rm" -> RmError
    [] OTHER -> LlmError

\* The message of the fault that reached the catch block: that of the last
\* failed call, or of the TypeError when no call failed.
LastFaultMessage ==
  IF FailedCalls = {} THEN BytesError
  ELSE MessageOf(calls[CHOOSE k \in FailedCalls : \A j \in FailedCalls : j <= k].op)

\* The chunk count the splitter returned for file f (when it has).
SplitOf(f) == {k \in 1..Len(calls) : calls[k].op = "split" /\ calls[k].file = f /\ calls[k].ok}

\* The chunk indices the summarization capability was called on for file f, in call order.
SummarizedChunks(f) ==
  LET ForFile(c) == c.op = "summarize" /\ c.file = f
      mine == SelectSeq(calls, ForFile)
  IN [k \in 1..Len(mine) |-> mine[k].chunk]

\* What the summarization capability returned for file f, in call order.
ChunkSummaries(f) ==
  LET ForFile(c) == c.op = "summarize" /\ c.file = f /\ c.ok
      mine == SelectSeq(calls, ForFile)
  IN [k \in 1..Len(mine) |-> mine[k].text]

\* The texts returned for file f joined by single spaces, trimmed.
SummaryTextOf(f) == Trim(Join(ChunkSummaries(f), <<Space>>))

\* What a summary fragment for a file of that name begins with.
SummaryHead(name) == MarkerSummary \o <<" ">> \o name \o <<":", "\n">>

\* ------------------------------------------------------------------ C1

\* C1: when the worker of a request with N >= 1 files has finished and no step
\* failed, the stream holds exactly N fragments beginning with 'Summary for', the
\* k-th naming the k-th file (with empty summary text for a file of zero chunks),
\* then exactly one 'Unified Analysis:' fragment, which is the last fragment, and
\* the stream is closed.
C1_SuccessfulStreamShape ==
  (pc = "done" /\ ~SomeStepFailed) =>
    /\ Cardinality(SummaryAt) = Len(files)
    /\ \A k \in 1..Len(files) :
         /\ StartsWith(stream[Kth(SummaryAt, k)], SummaryHead(files[k]))
         /\ (\E c \in SplitOf(k) : calls[c].chunk = 0) =>
              stream[Kth(SummaryAt, k)] = SummaryFragment(files[k], << >>)
    /\ UnifiedAt = {Len(stream)}
    /\ \A p \in SummaryAt : p < Len(stream)
    /\ streamState = "closed"

\* A two-file request finished without a fault, one of its files having no chunks.
C1_Witness ==
  /\ pc = "done"
  /\ ~SomeStepFailed
  /\ Len(files) = 2
  /\ files[1] # files[2]
  /\ \E c \in SplitOf(2) : calls[c].chunk = 0
  /\ \E c \in SplitOf(1) : calls[c].chunk > 0

\* ------------------------------------------------------------------ C2

\* C2: once the worker of a request has finished (its response is complete),
\* no temporary staging directory created by that request exists.
C2_NoStagingAreaSurvives == pc = "done" => tempDirs = {}

\* ------------------------------------------------------------------ C3

\* C3: writer.close() has run exactly once when the worker has finished and not
\* before, on every path, a consumer that cancels included; unless the consumer
\* cancelled, the stream is closed from then on; nothing is written after the
\* call of close().
C3_ClosedExactlyOnce ==
  /\ [](closeCalls = IF pc = "done" THEN 1 ELSE 0)
  /\ [](streamState = "closed" => pc = "done")
  /\ [](pc = "done" => streamState \in {"closed", "cancelled"})
  /\ [][closeCalls >= 1 => (stream' = stream /\ streamState' = streamState)]_vars

\* The stream was closed after a failed summarization call, the reader done.
C3_Witness ==
  /\ streamState = "closed"
  /\ closeCalls = 1
  /\ \E k \in FailedCalls : calls[k].op = "summarize"
  /\ wire = << >>

\* ------------------------------------------------------------------ C4

\* C4: once a step has failed nothing is written but one 'Error: <message>'
\* fragment, appended to the fragments already written; when the worker has
\* finished it is the last fragment, it carries the fault's message, there is no
\* 'Unified Analysis:' fragment, and the stream is closed.
C4_OneErrorFragmentLast ==
  /\ [][SomeStepFailed =>
          \/ stream' = stream
          \/ ErrorAt = {} /\ stream' = Append(stream, ErrorFragment(MessageText(exception)))]_vars
  /\ []((pc = "done" /\ SomeStepFailed) =>
          /\ ErrorAt = {Len(stream)}
          /\ stream[Len(stream)] = ErrorFragment(LastFaultMessage)
          /\ UnifiedAt = {}
          /\ streamState = "closed")

\* A load failure on the second file, reported after the first file's fragments.
C4_Witness ==
  /\ pc = "done"
  /\ \E k \in FailedCalls : calls[k].op = "load" /\ calls[k].file = 2
  /\ Len(stream) > 3
  /\ IsError(stream[Len(stream)])

\* ------------------------------------------------------------------ C5

\* C5: after a step of file f has failed, no call follows but the removal of f's
\* own directory (so no later file is staged and no LLM or synthesis call is
\* made), the stream holds f - 1 summary fragments (none for f; all f of them
\* when the step that failed is the removal of the directory, which comes after
\* the summary), no 'Processing' fragment of a later file and no 'Synthesizing
\* findings...' fragment.
C5_FailedFileAbortsTheRest ==
  \A k \in FailedCalls :
    calls[k].file >= 1 =>
      LET f == calls[k].file
          afterSummary == calls[k].op = "rm" /\ \A j \in 1..(k - 1) : calls[j].ok
      IN /\ \A j \in (k + 1)..Len(calls) : calls[j].op = "rm" /\ calls[j].file = f
         /\ Cardinality(SummaryAt) = IF afterSummary THEN f ELSE f - 1
         /\ Cardinality(ProcessingAt) \in {f - 1, f}
         /\ \A p \in 1..Len(stream) : stream[p] # SynthesizingFragment
         /\ IF Cardinality(ProcessingAt) = f
            THEN \A p \in (Kth(ProcessingAt, f) + 1)..Len(stream) :
                   \/ IsAnalyzing(stream[p])
                   \/ IsError(stream[p])
                   \/ afterSummary /\ IsSummary(stream[p])
            ELSE \A p \in 1..Len(stream) :
                   IsError(stream[p]) \/ \E q \in SummaryAt : p <= q

\* The first of two files failed in its second summarization call; the worker is done.
C5_Witness ==
  /\ pc = "done"
  /\ Len(files) = 2
  /\ \E k \in FailedCalls : calls[k].op = "summarize" /\ calls[k].file = 1 /\ calls[k].chunk = 1

\* ------------------------------------------------------------------ C6

\* C6: when every file was summarized and the synthesis call then failed, the
\* finished stream holds the N summary fragments in submission order, then
\* exactly one 'Error:' fragment, and no 'Unified Analysis:' fragment.
C6_SynthesisFailure ==
  (pc = "done" /\ \E k \in FailedCalls : calls[k].op = "synthesize") =>
    /\ Cardinality(SummaryAt) = Len(files)
    /\ \A k \in 1..Len(files) : StartsWith(stream[Kth(SummaryAt, k)], SummaryHead(files[k]))
    /\ Cardinality(ErrorAt) = 1
    /\ \A p \in SummaryAt : \A e \in ErrorAt : p < e
    /\ UnifiedAt = {}

\* Two differently named files summarized, then the synthesis call failed.
C6_Witness ==
  /\ pc = "done"
  /\ Len(files) = 2
  /\ files[1] # files[2]
  /\ \E k \in FailedCalls : calls[k].op = "synthesize"

\* ------------------------------------------------------------------ C7

\* C7: a request without files is answered 400 'No files uploaded' with no
\* stream, no worker, no staging directory and no call to any capability; a
\* request with files is answered by a streaming response, its worker started.
C7_EmptyRequestRejected ==
  pc # "idle" =>
    IF Len(files) = 0
    THEN /\ response = [status |-> 400, body |-> NoFilesBody, streaming |-> FALSE]
         /\ pc = "rejected"
         /\ streamState = "none"
         /\ tempDirs = {}
         /\ calls = << >>
         /\ stream = << >>
    ELSE /\ response.status = 200
         /\ response.streaming
         /\ streamState # "none"
         /\ pc # "rejected"
         /\ fileIdx >= 1

\* The empty request has been answered.
C7_Witness == Len(files) = 0 /\ response.status = 400

\* ------------------------------------------------------------------ C8

\* C8: for every file whose summary fragment has been written, with n the chunk
\* count the splitter returned, exactly min(n, 5) 'Analyzing section' fragments
\* stand between its 'Processing' and its 'Summary for' fragment, and the
\* summarization capability was called on the chunks 0, 1, ..., min(n, 5) - 1 in
\* that order, once each; no call is ever made on a chunk of index 5 or more.
C8_ChunkCap ==
  /\ \A k \in 1..Len(calls) : calls[k].op = "summarize" => calls[k].chunk < 5
  /\ \A f \in 1..Cardinality(SummaryAt) :
       \A c \in SplitOf(f) :
         LET m == Min(calls[c].chunk, 5)
             between == SubSeq(stream, Kth(ProcessingAt, f) + 1, Kth(SummaryAt, f) - 1)
         IN /\ Len(SelectSeq(between, IsAnalyzing)) = m
            /\ SummarizedChunks(f) = [j \in 1..m |-> j - 1]
            /\ \A j \in 1..m : calls[c + j].ok

\* A file of six chunks has its summary fragment in the stream.
C8_Witness ==
  /\ Cardinality(SummaryAt) >= 1
  /\ \E c \in SplitOf(1) : calls[c].chunk = 6

\* ------------------------------------------------------------------ C9

\* C9: when the page has finished reading a response in which the route wrote an
\* 'Error: <message>' fragment, that fragment is in the progress log and the
\* page's error state is not null.
C9_StreamErrorReachesAlert ==
  (cpc = "done" /\ ErrorAt # {}) =>
    /\ \A e \in ErrorAt : Includes(scientificProcess, stream[e])
    /\ error # NoError

\* ------------------------------------------------------------------ C10

\* The page has read, one fragment per read, the whole response of a request in
\* which no step failed.
SuccessfulResponseRead ==
  /\ cpc = "done"
  /\ pc = "done"
  /\ ~SomeStepFailed
  /\ aligned

\* The published summaries: as many as files, the k-th beginning with what the
\* k-th 'Summary for' fragment carries after its marker; and an analysis published.
ResultRebuilt ==
  /\ results.published
  /\ Len(pageSummaries) = Len(files)
  /\ \A k \in 1..Len(files) :
       LET fragment == stream[Kth(SummaryAt, k)]
       IN IsPrefix(Trim(SubSeq(fragment, Len(MarkerSummary) + 1, Len(fragment))),
                   pageSummaries[k])

\* 'Summary for' stands in the response only at the start of the summary
\* fragments, 'Unified Analysis:' only at the start of the last fragment.
MarkersOnlyLead ==
  \A p \in 1..Len(stream) :
    /\ Occurrences(stream[p], MarkerSummary) = IF IsSummary(stream[p]) THEN {1} ELSE {}
    /\ Occurrences(stream[p], MarkerUnified) = IF IsUnified(stream[p]) THEN {1} ELSE {}

\* C10 as stated: for a successful N-file response read one fragment per read,
\* the published result has N summaries, the k-th built from the k-th file's
\* 'Summary for' fragment, and one unified analysis.
C10_ResultRebuilt == SuccessfulResponseRead => ResultRebuilt

\* C10 as amended: the same, for responses in which no file name and no generated
\* text puts a marker anywhere but at the start of its own fragment.
C10_ResultRebuiltWhenMarkersOnlyLead ==
  (SuccessfulResponseRead /\ MarkersOnlyLead) => ResultRebuilt

\* A successful response for two differently named files, one of them without
\* chunks, has been read and rebuilt.
C10_Witness ==
  /\ SuccessfulResponseRead
  /\ MarkersOnlyLead
  /\ Len(files) = 2
  /\ files[1] # files[2]
  /\ Len(pageSummaries) = 2
  /\ pageSummaries[1] # pageSummaries[2]
  /\ \E c \in SplitOf(1) : calls[c].chunk = 1
  /\ \E c \in SplitOf(2) : calls[c].chunk = 0

\* ------------------------------------------------------------------ C11

\* What file f writes from its 'Processing' fragment on: that fragment alone
\* while the splitter has not returned; else, with n = min(chunks, 5), the
\* fragments 'Analyzing section k of n' for k = 1, ..., n and the summary.
FileFragments(f) ==
  IF SplitOf(f) = {} THEN <<ProcessingFragment(files[f])>>
  ELSE LET n == Min(calls[CHOOSE c \in SplitOf(f) : TRUE].chunk, 5)
       IN <<ProcessingFragment(files[f])>>
          \o [k \in 1..n |-> AnalyzingFragment(k - 1, n, files[f])]
          \o <<SummaryFragment(files[f], SummaryTextOf(f))>>

\* The fragments of the files 1 .. f, file after file.
RECURSIVE FragmentsUpTo(_)
FragmentsUpTo(f) == IF f = 0 THEN << >> ELSE FragmentsUpTo(f - 1) \o FileFragments(f)

\* The stream without the 'Error:' or 'Unified Analysis:' fragment that ends it.
StreamBody ==
  IF stream # << >> /\ (IsError(stream[Len(stream)]) \/ IsUnified(stream[Len(stream)]))
  THEN SubSeq(stream, 1, Len(stream) - 1)
  ELSE stream

\* C11: at every moment the stream, up to the 'Error:' or 'Unified Analysis:'
\* fragment that may end it, is a beginning of: for each file in submission
\* order its 'Processing' fragment, its 'Analyzing section k of n' fragments with
\* k = 1, ..., n and n = min(chunks, 5), and its 'Summary for' fragment; then
\* 'Synthesizing findings...' after the last file's summary.
C11_FileFragmentsContiguous ==
  IsPrefix(StreamBody, FragmentsUpTo(Len(files)) \o <<SynthesizingFragment>>)

\* Two files, of six and of two chunks, went through without a fault.
C11_Witness ==
  /\ pc = "done"
  /\ ~SomeStepFailed
  /\ Len(files) = 2
  /\ \E c \in SplitOf(1) : calls[c].chunk = 6
  /\ \E c \in SplitOf(2) : calls[c].chunk = 2

\* ------------------------------------------------------------------ C12

\* The places of the synthesis call in the log of calls.
SynthesisCalls == {k \in 1..Len(calls) : calls[k].op = "synthesize"}

\* C12: the synthesis capability is called at most once in a request; when it
\* is called no earlier call has failed, every file has its 'Summary for'
\* fragment in the stream, and the call's input is those N fragments, in
\* submission order, joined by newlines; no call follows it.
C12_SynthesisInput ==
  /\ Cardinality(SynthesisCalls) <= 1
  /\ \A k \in SynthesisCalls :
       /\ k = Len(calls)
       /\ \A j \in 1..(k - 1) : calls[j].ok
       /\ Cardinality(SummaryAt) = Len(files)
       /\ \A f \in 1..Len(files) : StartsWith(stream[Kth(SummaryAt, f)], SummaryHead(files[f]))
       /\ calls[k].text = Join([f \in 1..Len(files) |-> stream[Kth(SummaryAt, f)]], <<Newline>>)

\* The synthesis call was made for two differently named files with progress
\* fragments between their summaries.
C12_Witness ==
  /\ SynthesisCalls # {}
  /\ Len(files) = 2
  /\ files[1] # files[2]
  /\ \E c \in SplitOf(2) : calls[c].chunk >= 2
  /\ stream[Kth(SummaryAt, 1)] # stream[Kth(SummaryAt, 2)]

\* ------------------------------------------------------------------ C13

\* C13: the 'Summary for' fragment of file f is the marker, the file's name and
\* the texts returned for its chunks 0 .. min(chunks, 5) - 1, in chunk order,
\* joined by single spaces and trimmed; the empty text for a file of no chunks.
C13_SummaryText ==
  \A f \in 1..Cardinality(SummaryAt) :
    /\ stream[Kth(SummaryAt, f)] =
         SummaryFragment(files[f], Trim(Join(ChunkSummaries(f), <<Space>>)))
    /\ \A c \in SplitOf(f) :
         /\ Len(ChunkSummaries(f)) = Min(calls[c].chunk, 5)
         /\ SummarizedChunks(f) = [j \in 1..Min(calls[c].chunk, 5) |-> j - 1]
         /\ calls[c].chunk = 0 => stream[Kth(SummaryAt, f)] = SummaryFragment(files[f], << >>)

\* The summary of a file of three chunks is written, the texts returned for its
\* chunks not all alike, the first of them empty and the second padded with
\* whitespace; the second file had no chunks.
C13_Witness ==
  /\ Cardinality(SummaryAt) = 2
  /\ \E c \in SplitOf(1) : calls[c].chunk = 3
  /\ \E c \in SplitOf(2) : calls[c].chunk = 0
  /\ ChunkSummaries(1)[1] = << >>
  /\ ChunkSummaries(1)[2] # ChunkSummaries(1)[3]
  /\ ChunkSummaries(1)[2] # Trim(ChunkSummaries(1)[2])

\* ------------------------------------------------------------------ C14

\* C14: when the page has read a successful response one fragment per read and
\* published a result, no entry of the published summaries contains the
\* 'Unified Analysis:' marker (nor, with it, the text of the analysis).
C14_SummariesExcludeAnalysis ==
  (SuccessfulResponseRead /\ results.published) =>
    \A k \in 1..Len(pageSummaries) : ~Includes(pageSummaries[k], MarkerUnified)

\* ------------------------------------------------------------------ C15

\* The page has read the whole response of a request in which no step failed,
\* its reads ending anywhere.
SuccessfulResponseReadAnyhow ==
  /\ cpc = "done"
  /\ pc = "done"
  /\ ~SomeStepFailed

\* C15: when the page has read a successful response, however the reads divide
\* it as long as none parts a 'Unified Analysis:' marker, the published
\* unifiedAnalysis is all the accumulated text after the marker, trimmed.
C15_UnifiedAnalysisComplete ==
  (SuccessfulResponseReadAnyhow /\ ~markerCut) =>
    /\ results.published
    /\ results.unifiedAnalysis = Trim(RestAfter(accumulatedText, MarkerUnified))

\* ------------------------------------------------------------------ C16

\* The stream as one text.
StreamText == Join(stream, << >>)

\* C16 as stated: when a read has ended between the two halves of a
\* 'Unified Analysis:' marker, the page never publishes a result, although the
\* accumulated text holds the marker once the response is read.
C16_SplitMarkerNeverPublishes ==
  markerCut =>
    /\ results = NoResults
    /\ cpc = "done" => Includes(accumulatedText, MarkerUnified)

\* C16 as amended: the same, when the parted marker is the only occurrence of
\* 'Unified Analysis:' in the response.
C16_SplitOnlyMarkerNeverPublishes ==
  (markerCut /\ Cardinality(Occurrences(StreamText, MarkerUnified)) = 1) =>
    /\ results = NoResults
    /\ cpc = "done" => Includes(accumulatedText, MarkerUnified)

\* A successful response whose only marker was parted by a read has been read
\* to its end.
C16_Witness ==
  /\ SuccessfulResponseReadAnyhow
  /\ markerCut
  /\ Cardinality(Occurrences(StreamText, MarkerUnified)) = 1
  /\ Includes(accumulatedText, MarkerUnified)
  /\ results = NoResults

\* ------------------------------------------------------------------ C17

\* File f carries 'Summary for' in its name or in its summary text.
CarriesSummaryMarker(f) ==
  Includes(files[f], MarkerSummary) \/ Includes(SummaryTextOf(f), MarkerSummary)

\* The fragments that contain 'Summary for', wherever in them.
MarkerReads == {p \in 1..Len(stream) : Includes(stream[p], MarkerSummary)}

\* 'Unified Analysis:' stands only at the start of the fragment written for it.
UnifiedOnlyLeads ==
  \A p \in 1..Len(stream) :
    Occurrences(stream[p], MarkerUnified) = IF IsUnified(stream[p]) THEN {1} ELSE {}

\* No occurrence of 'Summary for' is directly followed by another one.
NoAdjacentSummaryMarkers ==
  \A p \in 1..Len(stream) :
    \A o \in Occurrences(stream[p], MarkerSummary) :
      o + Len(MarkerSummary) \notin Occurrences(stream[p], MarkerSummary)

\* C17 as stated: when a file of a successful response, read one fragment per
\* read, carries 'Summary for' in its name or its summary text, the published
\* list still has one entry per file and that file's entry contains its whole
\* summary text.
C17_RobustToMarkerInContent ==
  (SuccessfulResponseRead /\ \E f \in 1..Len(files) : CarriesSummaryMarker(f)) =>
    /\ results.published
    /\ Len(pageSummaries) = Len(files)
    /\ \A f \in 1..Len(files) :
         CarriesSummaryMarker(f) => Includes(pageSummaries[f], SummaryTextOf(f))

\* C17 as amended: the published list has one entry per fragment that contains
\* 'Summary for', and the j-th entry is, trimmed, what the j-th such fragment
\* holds between its first and its second 'Summary for' (or its end), followed
\* by the fragments up to the next one that contains 'Summary for'.
C17_OneEntryPerMarkerFragment ==
  (SuccessfulResponseRead /\ UnifiedOnlyLeads /\ NoAdjacentSummaryMarkers) =>
    /\ results.published
    /\ Len(pageSummaries) = Cardinality(MarkerReads)
    /\ \A j \in 1..Cardinality(MarkerReads) :
         LET p == Kth(MarkerReads, j)
             next == IF j < Cardinality(MarkerReads) THEN Kth(MarkerReads, j + 1)
                     ELSE Len(stream) + 1
         IN pageSummaries[j] =
              Trim(SplitSecond(stream[p], MarkerSummary)
                   \o Join(SubSeq(stream, p + 1, next - 1), << >>))

\* A successful response has been read in which a file's summary text contains
\* 'Summary for': no published entry holds that summary text whole.
C17_Witness ==
  /\ SuccessfulResponseRead
  /\ UnifiedOnlyLeads
  /\ \E f \in 1..Len(files) :
       /\ Includes(SummaryTextOf(f), MarkerSummary)
       /\ ~Includes(files[f], MarkerSummary)
       /\ \A k \in 1..Len(pageSummaries) : ~Includes(pageSummaries[k], SummaryTextOf(f))

\* ------------------------------------------------------------------ C18

\* C18: a request with at least one file, once its worker runs, leads to the
\* worker done and the stream closed, whatever succeeds or fails on the way.
C18_RequestTerminates ==
  (Len(files) >= 1 /\ pc \notin {"idle", "rejected"}) ~> (pc = "done" /\ streamState = "closed")

\* A request of two files, the second of five chunks, has ended with its
\* stream closed.
C18_Witness ==
  /\ pc = "done"
  /\ streamState = "closed"
  /\ Len(files) = 2
  /\ \E c \in SplitOf(2) : calls[c].chunk = 5

\* ------------------------------------------------------------------ C19

\* The worker is between the staging of the current file and the end of its
\* processFile call.
InProcessFile ==
  pc \in {"yieldProcessing", "processingWritten", "load", "split", "summarize",
          "yieldAnalyzing", "analyzingWritten", "yieldSummary", "summaryWritten", "cleanup"}

\* C19: at most one staging directory exists, that of the current file; the
\* directory of file f - 1 was removed before that of file f is created; all
\* are removed before the synthesis step; a file's directory exists until its
\* 'Summary for' fragment is written, and when it is removed without a fault
\* that fragment is in the stream.
C19_OneStagingDirectory ==
  /\ Cardinality(tempDirs) <= 1
  /\ tempDirs \subseteq {fileIdx}
  /\ InProcessFile => tempDirs = {fileIdx}
  /\ pc \in {"announce", "announced", "synthesize", "writeUnified", "unifiedWritten"} =>
       tempDirs = {}
  /\ \A k \in 1..Len(calls) :
       /\ (calls[k].op = "mkdtemp" /\ calls[k].file > 1) =>
            \E j \in 1..(k - 1) :
              calls[j].op = "rm" /\ calls[j].file = calls[k].file - 1 /\ calls[j].ok
       /\ calls[k].op = "synthesize" =>
            \A f \in 1..Len(files) :
              \E j \in 1..(k - 1) : calls[j].op = "rm" /\ calls[j].file = f /\ calls[j].ok
       /\ (calls[k].op = "rm" /\ \A j \in 1..(k - 1) : calls[j].ok) =>
            Cardinality(SummaryAt) >= calls[k].file

\* The second file is staged, the first one summarized and its directory gone.
C19_Witness ==
  /\ tempDirs = {2}
  /\ Cardinality(SummaryAt) = 1
  /\ pc = "yieldSummary"

\* ------------------------------------------------------------------ C20

\* C20: when the progress log ends with 'Analysis completed successfully.', the
\* stream that was read holds a 'Unified Analysis:' fragment and no 'Error:'
\* fragment, and a result is published.
C20_CompletedOnlyOnSuccess ==
  Includes(scientificProcess, CompletedText) =>
    /\ UnifiedAt # {}
    /\ ErrorAt = {}
    /\ results.published

====
